---- MODULE Spec2Model ----
(***************************************************************************)
(* University library (terminal application, code.py).                     *)
(*                                                                         *)
(* Two JSON files hold the state that outlives a run: the users store (a   *)
(* mapping username -> {password, role}) and the books store (an ordered   *)
(* list of book records).  A run seeds the files that are missing, logs a  *)
(* user in (three attempts) and then loops on a menu whose handlers each   *)
(* reload the books store, change it in memory and save it back.           *)
(*                                                                         *)
(* Strings are sequences of one-character strings, so that strip(),        *)
(* lower(), isdigit(), int() and the substring test are computed and not   *)
(* assumed.  Dates are day ordinals (0 is 2025-01-01); isoformat() renders *)
(* an ordinal as the ten characters YYYY-MM-DD.  Python's None is the      *)
(* empty tuple and a present value x is the one-element tuple <<x>>.       *)
(*                                                                         *)
(* save_data returns False when open()/dump() raise IOError.  The model    *)
(* takes the failure to leave the file as it was (open() refused); a write *)
(* cut short inside json.dump is outside the model.                        *)
(***************************************************************************)
EXTENDS Integers, Sequences, FiniteSets, TLC

VARIABLES
    usersFile,    \* library_users.json: [exists, data]
    booksFile,    \* library_books.json: [exists, data]
    today,        \* date.today() as a day ordinal
    pc,           \* position of the run: boot, login_load, login, menu, exited
    users,        \* login(): the users mapping it loaded
    attempts,     \* login(): attempts remaining
    active_user,  \* __main__: username of the session, None before login
    user_role,    \* __main__: role of the session, None before login
    out,          \* the message the last handler printed
    prevOut,      \* history: the message of the handler before that
    rSession,     \* second scenario: the session of each concurrent instance
    rPc,          \* second scenario: position of each instance
    rBooks,       \* second scenario: the books list each instance loaded
    rOut,         \* second scenario: what each instance last reported
    lastWriter    \* history: the instance whose save the books file holds

vars == <<usersFile, booksFile, today, pc, users, attempts, active_user,
          user_role, out, prevOut, rSession, rPc, rBooks, rOut, lastWriter>>

sessionVars == <<pc, users, attempts, active_user, user_role, out, prevOut>>

raceVars == <<rSession, rPc, rBooks, rOut, lastWriter>>

----------------------------------------------------------------------------
(* Bounds of the exploration *)

\* days the clock may advance during the exploration
MaxTick == 1

\* the first day of the exploration: 2026-12-20, so that a loan of 14 days
\* crosses a month and a year
StartDay == 365 + 353

----------------------------------------------------------------------------
(* Strings *)

None == << >>

Some(x) == <<x>>

UpperCase ==
    <<"A", "B", "C", "D", "E", "F", "G", "H", "I", "J", "K", "L", "M",
      "N", "O", "P", "Q", "R", "S", "T", "U", "V", "W", "X", "Y", "Z">>

LowerCase ==
    <<"a", "b", "c", "d", "e", "f", "g", "h", "i", "j", "k", "l", "m",
      "n", "o", "p", "q", "r", "s", "t", "u", "v", "w", "x", "y", "z">>

AsciiDigits == <<"0", "1", "2", "3", "4", "5", "6", "7", "8", "9">>

\* "sup2" stands for the character U+00B2 (superscript two): str.isdigit()
\* accepts it and int() raises ValueError on it.
OtherDigits == {"sup2"}

Whitespace == {" ", "\t"}

Range(s) == {s[i] : i \in 1..Len(s)}

\* str.lower() on the capital letters
LowerOf ==
    [c \in Range(UpperCase) |->
        LowerCase[CHOOSE i \in 1..Len(UpperCase) : UpperCase[i] = c]]

\* str.lower() on one character
LowerChar(c) == IF c \in DOMAIN LowerOf THEN LowerOf[c] ELSE c

\* str.lower()
Lower(s) == [i \in 1..Len(s) |-> LowerChar(s[i])]

RECURSIVE LStrip(_)
LStrip(s) ==
    IF s # << >> /\ Head(s) \in Whitespace THEN LStrip(Tail(s)) ELSE s

RECURSIVE RStrip(_)
RStrip(s) ==
    IF s # << >> /\ s[Len(s)] \in Whitespace
        THEN RStrip(SubSeq(s, 1, Len(s) - 1))
        ELSE s

\* str.strip()
Strip(s) == RStrip(LStrip(s))

\* str.isdigit(): not empty, and every character a digit
IsDigit(s) == s # << >> /\ \A i \in 1..Len(s) : s[i] \in Range(AsciiDigits) \cup OtherDigits

\* whether int(s) returns, for an s that passed isdigit(); otherwise ValueError
IntParses(s) == \A i \in 1..Len(s) : s[i] \in Range(AsciiDigits)

DigitValue(c) == (CHOOSE i \in 1..Len(AsciiDigits) : AsciiDigits[i] = c) - 1

\* int(s) for a string of ASCII digits
RECURSIVE ToInt(_)
ToInt(s) ==
    IF s = << >> THEN 0
    ELSE 10 * ToInt(SubSeq(s, 1, Len(s) - 1)) + DigitValue(s[Len(s)])

\* the test "q in s" on strings
Contains(s, q) ==
    \E i \in 0..(Len(s) - Len(q)) : SubSeq(s, i + 1, i + Len(q)) = q

----------------------------------------------------------------------------
(* Dates *)

BORROW_DURATION_DAYS == 14

\* days of the months of 2025, 2026 and 2027, none of them a leap year
DaysInMonth == <<31, 28, 31, 30, 31, 30, 31, 31, 30, 31, 30, 31>>

RECURSIVE DaysBeforeMonth(_)
DaysBeforeMonth(m) ==
    IF m = 1 THEN 0 ELSE DaysBeforeMonth(m - 1) + DaysInMonth[m - 1]

YearOf(n) == 2025 + (n \div 365)

MonthOf(n) ==
    CHOOSE m \in 1..12 :
        /\ DaysBeforeMonth(m) <= n % 365
        /\ n % 365 < DaysBeforeMonth(m) + DaysInMonth[m]

DayOf(n) == (n % 365) - DaysBeforeMonth(MonthOf(n)) + 1

Digit(k) == AsciiDigits[k + 1]

TwoDigits(k) == <<Digit(k \div 10), Digit(k % 10)>>

FourDigits(k) == TwoDigits(k \div 100) \o TwoDigits(k % 100)

\* date.isoformat(): "YYYY-MM-DD"
IsoFormat(n) ==
    FourDigits(YearOf(n)) \o <<"-">> \o TwoDigits(MonthOf(n)) \o <<"-">>
        \o TwoDigits(DayOf(n))

----------------------------------------------------------------------------
(* The seeded records *)

Str_admin == <<"a", "d", "m", "i", "n">>

Str_admin123 == <<"a", "d", "m", "i", "n", "1", "2", "3">>

Str_mridul == <<"m", "r", "i", "d", "u", "l">>

Str_jamesbond007 ==
    <<"j", "a", "m", "e", "s", "b", "o", "n", "d", "0", "0", "7">>

Str_test == <<"t", "e", "s", "t">>

Str_student1 == <<"s", "t", "u", "d", "e", "n", "t", "1">>

Title1 ==
    <<"1", "9", "8", "4">>
Author1 ==
    <<"G", "e", "o", "r", "g", "e", " ", "O", "r", "w", "e", "l", "l">>
Summary1 ==
    <<"A", " ", "c", "h", "i", "l", "l", "i", "n", "g", " ", "p", "o", "r",
      "t", "r", "a", "i", "t", " ", "o", "f", " ", "a", " ", "s", "o", "c",
      "i", "e", "t", "y", " ", "u", "n", "d", "e", "r", " ", "t", "o", "t",
      "a", "l", " ", "s", "u", "r", "v", "e", "i", "l", "l", "a", "n", "c",
      "e", " ", "a", "n", "d", " ", "t", "h", "o", "u", "g", "h", "t", " ",
      "c", "o", "n", "t", "r", "o", "l", ".">>
Title2 ==
    <<"L", "e", "o", "n", "a", "r", "d", "o", " ", "D", "a", " ", "V", "i",
      "n", "c", "i">>
Author2 ==
    <<"W", "a", "l", "t", "e", "r", " ", "I", "s", "a", "c", "s", "s", "o",
      "n">>
Summary2 ==
    <<"A", "n", " ", "a", "c", "c", "l", "a", "i", "m", "e", "d", " ", "b",
      "i", "o", "g", "r", "a", "p", "h", "y", " ", "e", "x", "p", "l", "o",
      "r", "i", "n", "g", " ", "t", "h", "e", " ", "l", "i", "f", "e", " ",
      "a", "n", "d", " ", "m", "i", "n", "d", " ", "o", "f", " ", "t", "h",
      "e", " ", "u", "l", "t", "i", "m", "a", "t", "e", " ", "R", "e", "n",
      "a", "i", "s", "s", "a", "n", "c", "e", " ", "m", "a", "n", ",", " ",
      "c", "o", "n", "n", "e", "c", "t", "i", "n", "g", " ", "h", "i", "s",
      " ", "a", "r", "t", " ", "a", "n", "d", " ", "s", "c", "i", "e", "n",
      "c", "e", ".">>
Title3 ==
    <<"S", "a", "p", "i", "e", "n", "s", ":", " ", "A", " ", "B", "r", "i",
      "e", "f", " ", "H", "i", "s", "t", "o", "r", "y", " ", "o", "f", " ",
      "H", "u", "m", "a", "n", "k", "i", "n", "d">>
Author3 ==
    <<"Y", "u", "v", "a", "l", " ", "N", "o", "a", "h", " ", "H", "a", "r",
      "a", "r", "i">>
Summary3 ==
    <<"A", "n", " ", "e", "x", "p", "l", "o", "r", "a", "t", "i", "o", "n",
      " ", "o", "f", " ", "h", "u", "m", "a", "n", " ", "h", "i", "s", "t",
      "o", "r", "y", " ", "f", "r", "o", "m", " ", "t", "h", "e", " ", "S",
      "t", "o", "n", "e", " ", "A", "g", "e", " ", "t", "o", " ", "t", "h",
      "e", " ", "p", "r", "e", "s", "e", "n", "t", ".">>
Title4 ==
    <<"D", "u", "n", "e">>
Author4 ==
    <<"F", "r", "a", "n", "k", " ", "H", "e", "r", "b", "e", "r", "t">>
Summary4 ==
    <<"E", "p", "i", "c", " ", "s", "c", "i", "e", "n", "c", "e", " ", "f",
      "i", "c", "t", "i", "o", "n", " ", "n", "o", "v", "e", "l", " ", "s",
      "e", "t", " ", "o", "n", " ", "t", "h", "e", " ", "d", "e", "s", "e",
      "r", "t", " ", "p", "l", "a", "n", "e", "t", " ", "A", "r", "r", "a",
      "k", "i", "s", ".">>

Str_alice == <<"a", "l", "i", "c", "e">>

Str_pw == <<"p", "w">>

Str_nobody == <<"n", "o", "b", "o", "d", "y">>

Str_Emma == <<"E", "m", "m", "a">>

\* initialize_data: default_users
default_users ==
    (Str_admin :> [password |-> Str_admin123, role |-> "librarian"])
    @@ (Str_mridul :> [password |-> Str_jamesbond007, role |-> "student"])
    @@ (Str_test :> [password |-> Str_test, role |-> "student"])

\* initialize_data: default_books, on the day `day`
default_books(day) ==
    << [id |-> 1, title |-> Title1, author |-> Author1,
        status |-> "Available", borrower |-> None, due_date |-> None,
        summary |-> Summary1],
       [id |-> 2, title |-> Title2, author |-> Author2,
        status |-> "Available", borrower |-> None, due_date |-> None,
        summary |-> Summary2],
       [id |-> 3, title |-> Title3, author |-> Author3,
        status |-> "Checked Out", borrower |-> Some(Str_student1),
        due_date |-> Some(IsoFormat(day - 5)), summary |-> Summary3],
       [id |-> 4, title |-> Title4, author |-> Author4,
        status |-> "Available", borrower |-> None, due_date |-> None,
        summary |-> Summary4] >>

----------------------------------------------------------------------------
(* Persistence *)

EmptyUsers == << >>

EmptyBooks == << >>

AbsentUsers == [exists |-> FALSE, data |-> EmptyUsers]

AbsentBooks == [exists |-> FALSE, data |-> EmptyBooks]

\* load_data: the file's content, or the empty default when it is missing
load_data(file, default) == IF file.exists THEN file.data ELSE default

\* save_data: the file after the call; `ok` is what the call returns
save_data(file, data, ok) ==
    IF ok THEN [exists |-> TRUE, data |-> data] ELSE file

LoadBooks == load_data(booksFile, EmptyBooks)

LoadUsers == load_data(usersFile, EmptyUsers)

----------------------------------------------------------------------------
(* What the user may type *)

UsernameInputs == {Str_admin, <<" ">> \o Str_mridul \o <<" ">>, Str_alice, Str_nobody}

PasswordInputs == {Str_admin123, Str_jamesbond007 \o <<" ">>, Str_pw, Str_test}

ChoiceInputs ==
    {<<"0">>, <<"1">>, <<"2">>, <<"3">>, <<"4">>, <<"5">>, <<"6">>,
     <<"7">>, <<" ", "6">>, << >>}

IdInputs ==
    {<<"1">>, <<"3">>, <<" ", "0", "5">>, <<"9">>, <<"x">>, <<"sup2">>}

QueryInputs == {<<" ">>, <<"D", "U", "N", "E">>, <<"z", "z">>}

TitleInputs == {<<" ">>, <<"d", "u", "n", "e", " ">>, <<"D", "U", "N", "E">>, Str_Emma}

AuthorInputs == {<< >>, <<"f", "r", "a", "n", "k", " ", "H", "E", "R", "B", "E", "R", "T">>}

SummaryInputs == {<<" ", "n", "o", "v", "e", "l">>}

----------------------------------------------------------------------------
(* The handlers, as functions of the books list they loaded *)

\* the index of the first record whose id is `id`, 0 when there is none
FindIndex(books, id) ==
    IF \E i \in 1..Len(books) : books[i].id = id
        THEN CHOOSE i \in 1..Len(books) :
                /\ books[i].id = id
                /\ \A j \in 1..(i - 1) : books[j].id # id
        ELSE 0

Unchanged(books, msg) == [books |-> books, out |-> msg, write |-> FALSE]

\* checkout_book with the borrower left out of the record
CheckoutResultNoBorrower(books, raw, username, day, ok) ==
    LET book_id_str == Strip(raw) IN
    IF ~IsDigit(book_id_str) THEN Unchanged(books, "invalid_id_format")
    ELSE IF ~IntParses(book_id_str) THEN Unchanged(books, "invalid_input")
    ELSE
        LET i == FindIndex(books, ToInt(book_id_str)) IN
        IF i = 0 THEN Unchanged(books, "not_found")
        ELSE IF books[i].status = "Available"
            THEN [books |-> [books EXCEPT
                                ![i].status = "Checked Out",
                                ![i].due_date =
                                    Some(IsoFormat(day + BORROW_DURATION_DAYS))],
                  out |-> IF ok THEN "checkout_ok" ELSE "checkout_save_failed",
                  write |-> TRUE]
            ELSE Unchanged(books, "checkout_unavailable")

\* checkout_book with the due date set to the day of the checkout
CheckoutResultNoDuration(books, raw, username, day, ok) ==
    LET book_id_str == Strip(raw) IN
    IF ~IsDigit(book_id_str) THEN Unchanged(books, "invalid_id_format")
    ELSE IF ~IntParses(book_id_str) THEN Unchanged(books, "invalid_input")
    ELSE
        LET i == FindIndex(books, ToInt(book_id_str)) IN
        IF i = 0 THEN Unchanged(books, "not_found")
        ELSE IF books[i].status = "Available"
            THEN [books |-> [books EXCEPT
                                ![i].status = "Checked Out",
                                ![i].borrower = Some(username),
                                ![i].due_date = Some(IsoFormat(day))],
                  out |-> IF ok THEN "checkout_ok" ELSE "checkout_save_failed",
                  write |-> TRUE]
            ELSE Unchanged(books, "checkout_unavailable")

\* checkout_book, from the prompt on
CheckoutResult(books, raw, username, day, ok) ==
    LET book_id_str == Strip(raw) IN
    IF ~IsDigit(book_id_str) THEN Unchanged(books, "invalid_id_format")
    ELSE IF ~IntParses(book_id_str) THEN Unchanged(books, "invalid_input")
    ELSE
        LET i == FindIndex(books, ToInt(book_id_str)) IN
        IF i = 0 THEN Unchanged(books, "not_found")
        ELSE IF books[i].status = "Available"
            THEN [books |-> [books EXCEPT
                                ![i].status = "Checked Out",
                                ![i].borrower = Some(username),
                                ![i].due_date =
                                    Some(IsoFormat(day + BORROW_DURATION_DAYS))],
                  out |-> IF ok THEN "checkout_ok" ELSE "checkout_save_failed",
                  write |-> TRUE]
            ELSE Unchanged(books, "checkout_unavailable")

\* return_book: whether any checked-out book is shown to the caller
ReturnVisible(books, username, role) ==
    \E i \in 1..Len(books) :
        /\ books[i].status = "Checked Out"
        /\ (role = "librarian" \/ books[i].borrower = Some(username))

\* return_book without the check of who returns
ReturnScanAnyone(books, raw, username, role, ok) ==
    LET book_id_str == Strip(raw) IN
    IF ~IsDigit(book_id_str) THEN Unchanged(books, "invalid_id_format")
    ELSE IF ~IntParses(book_id_str) THEN Unchanged(books, "invalid_input")
    ELSE
        LET i == FindIndex(books, ToInt(book_id_str)) IN
        IF i = 0 THEN Unchanged(books, "not_found")
        ELSE IF books[i].status = "Checked Out"
            THEN [books |-> [books EXCEPT
                                ![i].status = "Available",
                                ![i].borrower = None,
                                ![i].due_date = None],
                  out |-> IF ok THEN "return_ok" ELSE "return_save_failed",
                  write |-> TRUE]
            ELSE Unchanged(books, "already_available")

\* return_book with the due date left in the record
ReturnScanKeepsDue(books, raw, username, role, ok) ==
    LET book_id_str == Strip(raw) IN
    IF ~IsDigit(book_id_str) THEN Unchanged(books, "invalid_id_format")
    ELSE IF ~IntParses(book_id_str) THEN Unchanged(books, "invalid_input")
    ELSE
        LET i == FindIndex(books, ToInt(book_id_str)) IN
        IF i = 0 THEN Unchanged(books, "not_found")
        ELSE IF books[i].status = "Checked Out"
            THEN IF role = "librarian" \/ books[i].borrower = Some(username)
                THEN [books |-> [books EXCEPT
                                    ![i].status = "Available",
                                    ![i].borrower = None],
                      out |-> IF ok THEN "return_ok" ELSE "return_save_failed",
                      write |-> TRUE]
                ELSE Unchanged(books, "return_denied")
            ELSE Unchanged(books, "already_available")

\* return_book, from the prompt on
ReturnScan(books, raw, username, role, ok) ==
    LET book_id_str == Strip(raw) IN
    IF ~IsDigit(book_id_str) THEN Unchanged(books, "invalid_id_format")
    ELSE IF ~IntParses(book_id_str) THEN Unchanged(books, "invalid_input")
    ELSE
        LET i == FindIndex(books, ToInt(book_id_str)) IN
        IF i = 0 THEN Unchanged(books, "not_found")
        ELSE IF books[i].status = "Checked Out"
            THEN IF role = "librarian" \/ books[i].borrower = Some(username)
                THEN [books |-> [books EXCEPT
                                    ![i].status = "Available",
                                    ![i].borrower = None,
                                    ![i].due_date = None],
                      out |-> IF ok THEN "return_ok" ELSE "return_save_failed",
                      write |-> TRUE]
                ELSE Unchanged(books, "return_denied")
            ELSE Unchanged(books, "already_available")

\* return_book without the listing of the caller's loans that ends it early
ReturnResultNoListing(books, raw, username, role, ok) ==
    ReturnScan(books, raw, username, role, ok)

\* return_book
ReturnResult(books, raw, username, role, ok) ==
    IF ~ReturnVisible(books, username, role)
        THEN Unchanged(books, IF role = "librarian"
                                  THEN "nothing_checked_out"
                                  ELSE "nothing_to_return")
        ELSE ReturnScan(books, raw, username, role, ok)

\* max(book["id"] for book in books)
MaxId(books) ==
    CHOOSE m \in {books[i].id : i \in 1..Len(books)} :
        \A i \in 1..Len(books) : books[i].id <= m

\* add_book: next_id without the increment
NextIdNoIncrement(books) == IF books # << >> THEN MaxId(books) ELSE 1

\* add_book: next_id
NextId(books) == IF books # << >> THEN MaxId(books) + 1 ELSE 1

\* add_book with the duplicate check comparing the texts as typed
AddResultCaseSensitive(books, rawTitle, rawAuthor, rawSummary, ok) ==
    LET title == Strip(rawTitle)
        author == Strip(rawAuthor)
        summary == Strip(rawSummary)
    IN
    IF title = << >> \/ author = << >> THEN Unchanged(books, "add_empty")
    ELSE IF \E i \in 1..Len(books) :
                books[i].title = title /\ books[i].author = author
        THEN Unchanged(books, "add_duplicate")
    ELSE [books |-> Append(books,
                        [id |-> NextId(books), title |-> title,
                         author |-> author, status |-> "Available",
                         borrower |-> None, due_date |-> None,
                         summary |-> summary]),
          out |-> IF ok THEN "add_ok" ELSE "add_save_failed",
          write |-> TRUE]

\* add_book
AddResult(books, rawTitle, rawAuthor, rawSummary, ok) ==
    LET title == Strip(rawTitle)
        author == Strip(rawAuthor)
        summary == Strip(rawSummary)
    IN
    IF title = << >> \/ author = << >> THEN Unchanged(books, "add_empty")
    ELSE IF \E i \in 1..Len(books) :
                /\ Lower(books[i].title) = Lower(title)
                /\ Lower(books[i].author) = Lower(author)
        THEN Unchanged(books, "add_duplicate")
    ELSE [books |-> Append(books,
                        [id |-> NextId(books), title |-> title,
                         author |-> author, status |-> "Available",
                         borrower |-> None, due_date |-> None,
                         summary |-> summary]),
          out |-> IF ok THEN "add_ok" ELSE "add_save_failed",
          write |-> TRUE]

\* search_books: the message it ends with
SearchOut(books, raw) ==
    LET query == Strip(Lower(raw)) IN
    IF books = << >> THEN "search_no_books"
    ELSE IF query = << >> THEN "search_empty_query"
    ELSE IF \E i \in 1..Len(books) :
                \/ Contains(Lower(books[i].title), query)
                \/ Contains(Lower(books[i].author), query)
                \/ Contains(Lower(books[i].summary), query)
        THEN "search_found"
    ELSE "search_no_match"

\* main_menu with the librarian options open to every role
DispatchTargetNoRole(choice, role) ==
    IF choice = <<"1">> THEN "search"
    ELSE IF choice = <<"2">> THEN "view"
    ELSE IF choice = <<"3">> THEN "checkout"
    ELSE IF choice = <<"4">> THEN "return"
    ELSE IF choice = <<"5">> THEN "add"
    ELSE IF choice = <<"6">> THEN "users"
    ELSE IF choice = <<"0">> THEN "logout"
    ELSE "invalid"

\* main_menu: the branch of the if/elif chain that `choice` takes
DispatchTarget(choice, role) ==
    IF choice = <<"1">> THEN "search"
    ELSE IF choice = <<"2">> THEN "view"
    ELSE IF choice = <<"3">> THEN "checkout"
    ELSE IF choice = <<"4">> THEN "return"
    ELSE IF choice = <<"5">> /\ role = "librarian" THEN "add"
    ELSE IF choice = <<"6">> /\ role = "librarian" THEN "users"
    ELSE IF choice = <<"0">> THEN "logout"
    ELSE IF role # "librarian" /\ choice \in {<<"5">>, <<"6">>} THEN "denied"
    ELSE "invalid"

----------------------------------------------------------------------------
(* One run of the program after another, on the same two files *)

Username == active_user[1]

Role == user_role[1]

\* main_menu: the user types a choice that takes the branch `target`
Chosen(target) ==
    /\ pc = "menu"
    /\ \E c \in ChoiceInputs : DispatchTarget(Strip(c), Role) = target

\* what prevOut keeps of a message
Kept(msg) == IF msg \in {"checkout_ok", "return_ok"} THEN msg ELSE "other"

Report(msg) == out' = msg /\ UNCHANGED prevOut

TypeOK ==
    /\ usersFile.exists \in BOOLEAN
    /\ booksFile.exists \in BOOLEAN
    /\ pc \in {"boot", "login_load", "login", "menu", "pause", "sleep", "exited"}
    /\ attempts \in 0..3
    /\ today \in StartDay..(StartDay + MaxTick)

Init ==
    /\ usersFile \in {AbsentUsers, [exists |-> TRUE, data |-> EmptyUsers]}
    /\ booksFile \in {AbsentBooks, [exists |-> TRUE, data |-> EmptyBooks]}
    /\ today = StartDay
    /\ pc = "boot"
    /\ users = EmptyUsers
    /\ attempts = 3
    /\ active_user = None
    /\ user_role = None
    /\ out = "none"
    /\ prevOut = "other"
    /\ rSession = << >>
    /\ rPc = << >>
    /\ rBooks = << >>
    /\ rOut = << >>
    /\ lastWriter = 0

\* the calendar day changes
Tick ==
    /\ today < StartDay + MaxTick
    /\ today' = today + 1
    /\ UNCHANGED <<usersFile, booksFile, sessionVars, raceVars>>

\* initialize_data
InitializeData ==
    /\ pc = "boot"
    /\ \E okUsers \in BOOLEAN, okBooks \in BOOLEAN :
        /\ usersFile' = IF ~usersFile.exists
                            THEN save_data(usersFile, default_users, okUsers)
                            ELSE usersFile
        /\ booksFile' = IF ~booksFile.exists
                            THEN save_data(booksFile, default_books(today), okBooks)
                            ELSE booksFile
    /\ pc' = "login_load"
    /\ UNCHANGED <<today, users, attempts, active_user, user_role, out, prevOut, raceVars>>

\* login: load the users, leave when there are none
LoginLoad ==
    /\ pc = "login_load"
    /\ users' = LoadUsers
    /\ attempts' = 3
    /\ IF DOMAIN LoadUsers = {}
        THEN pc' = "exited" /\ Report("no_users")
        ELSE pc' = "login" /\ UNCHANGED <<out, prevOut>>
    /\ UNCHANGED <<usersFile, booksFile, today, active_user, user_role, raceVars>>

\* login with the password not compared
CredentialsOkNameOnly(us, username, password) == username \in DOMAIN us

\* login: whether the credentials typed are those of a stored user
CredentialsOk(us, username, password) ==
    username \in DOMAIN us /\ us[username].password = password

\* login: where the loop stands after a failure that leaves `left` attempts
AfterFailure(left) == IF left = 0 THEN "exited" ELSE "login"

\* login: one pass of the while loop
LoginAttempt(rawName, rawPassword) ==
    /\ pc = "login"
    /\ attempts > 0
    /\ LET username == Strip(rawName)
           password == Strip(rawPassword)
       IN
       IF CredentialsOk(users, username, password)
           THEN /\ active_user' = Some(username)
                /\ user_role' = Some(users[username].role)
                /\ pc' = "menu"
                /\ Report("login_ok")
                /\ UNCHANGED attempts
           ELSE /\ attempts' = attempts - 1
                /\ pc' = AfterFailure(attempts')
                /\ Report(IF attempts' = 0 THEN "login_locked" ELSE "login_invalid")
                /\ UNCHANGED <<active_user, user_role>>
    /\ UNCHANGED <<usersFile, booksFile, today, users, raceVars>>

\* main_menu '1': search_books
MenuSearch ==
    /\ Chosen("search")
    /\ \E q \in QueryInputs : Report(SearchOut(LoadBooks, q))
    /\ pc' = "pause"
    /\ UNCHANGED <<usersFile, booksFile, today, users, attempts,
                   active_user, user_role, raceVars>>

\* main_menu '2': view_all_books
MenuView ==
    /\ Chosen("view")
    /\ Report(IF LoadBooks = << >> THEN "view_no_books" ELSE "view_listed")
    /\ pc' = "pause"
    /\ UNCHANGED <<usersFile, booksFile, today, users, attempts,
                   active_user, user_role, raceVars>>

\* main_menu '3': checkout_book
MenuCheckout(raw, ok) ==
    /\ pc = "menu"
    /\ pc' = "pause"
    /\ LET r == CheckoutResult(LoadBooks, raw, Username, today, ok) IN
        /\ Report(r.out)
        /\ booksFile' = IF r.write THEN save_data(booksFile, r.books, ok)
                                   ELSE booksFile
    /\ UNCHANGED <<usersFile, today, users, attempts, active_user,
                   user_role, raceVars>>

\* main_menu '4': return_book
MenuReturn(raw, ok) ==
    /\ pc = "menu"
    /\ pc' = "pause"
    /\ LET r == ReturnResult(LoadBooks, raw, Username, Role, ok) IN
        /\ Report(r.out)
        /\ booksFile' = IF r.write THEN save_data(booksFile, r.books, ok)
                                   ELSE booksFile
    /\ UNCHANGED <<usersFile, today, users, attempts, active_user,
                   user_role, raceVars>>

\* main_menu '5': add_book
MenuAdd(rawTitle, rawAuthor, rawSummary, ok) ==
    /\ pc = "menu"
    /\ pc' = "pause"
    /\ LET r == AddResult(LoadBooks, rawTitle, rawAuthor, rawSummary, ok) IN
        /\ Report(r.out)
        /\ booksFile' = IF r.write THEN save_data(booksFile, r.books, ok)
                                   ELSE booksFile
    /\ UNCHANGED <<usersFile, today, users, attempts, active_user,
                   user_role, raceVars>>

\* main_menu '6': view_users
MenuUsers ==
    /\ Chosen("users")
    /\ Report(IF DOMAIN LoadUsers = {} THEN "users_none" ELSE "users_listed")
    /\ pc' = "pause"
    /\ UNCHANGED <<usersFile, booksFile, today, users, attempts,
                   active_user, user_role, raceVars>>

\* main_menu '0': leave the loop, the process ends
MenuLogout ==
    /\ Chosen("logout")
    /\ pc' = "exited"
    /\ Report("goodbye")
    /\ UNCHANGED <<usersFile, booksFile, today, users, attempts,
                   active_user, user_role, raceVars>>

\* main_menu, the else branch: a message, and the loop goes on
MenuOther ==
    /\ \/ Chosen("denied") /\ Report("access_denied")
       \/ Chosen("invalid") /\ Report("invalid_choice")
    /\ pc' = "sleep"
    /\ UNCHANGED <<usersFile, booksFile, today, users, attempts,
                   active_user, user_role, raceVars>>

\* pause_and_continue returns, or time.sleep does: the loop clears the screen
MenuRedraw ==
    /\ pc \in {"pause", "sleep"}
    /\ pc' = "menu"
    /\ out' = "none"
    /\ prevOut' = Kept(out)
    /\ UNCHANGED <<usersFile, booksFile, today, users, attempts,
                   active_user, user_role, raceVars>>

\* the program is started again
Restart ==
    /\ pc = "exited"
    /\ pc' = "boot"
    /\ users' = EmptyUsers
    /\ attempts' = 3
    /\ active_user' = None
    /\ user_role' = None
    /\ out' = "none"
    /\ prevOut' = "other"
    /\ UNCHANGED <<usersFile, booksFile, today, raceVars>>

Next ==
    \/ Tick
    \/ InitializeData
    \/ LoginLoad
    \/ \E rawName \in UsernameInputs, rawPassword \in PasswordInputs :
            LoginAttempt(rawName, rawPassword)
    \/ MenuSearch
    \/ MenuView
    \/ Chosen("checkout") /\ \E raw \in IdInputs, ok \in BOOLEAN : MenuCheckout(raw, ok)
    \/ Chosen("return") /\ \E raw \in IdInputs, ok \in BOOLEAN : MenuReturn(raw, ok)
    \/ Chosen("add") /\ \E t \in TitleInputs, a \in AuthorInputs, s \in SummaryInputs, ok \in BOOLEAN :
            MenuAdd(t, a, s, ok)
    \/ MenuUsers
    \/ MenuLogout
    \/ MenuOther
    \/ MenuRedraw
    \/ Restart

Spec == Init /\ [][Next]_vars

----------------------------------------------------------------------------
(* The scenario of one book and the user alice *)

scenario_users ==
    (Str_alice :> [password |-> Str_pw, role |-> "student"])
    @@ (Str_admin :> [password |-> Str_admin123, role |-> "librarian"])

scenario_books ==
    << [id |-> 1, title |-> Title4, author |-> Author4,
        status |-> "Available", borrower |-> None, due_date |-> None,
        summary |-> Summary4] >>

InitScenario ==
    /\ usersFile = [exists |-> TRUE, data |-> scenario_users]
    /\ booksFile = [exists |-> TRUE, data |-> scenario_books]
    /\ today = StartDay
    /\ pc = "boot"
    /\ users = EmptyUsers
    /\ attempts = 3
    /\ active_user = None
    /\ user_role = None
    /\ out = "none"
    /\ prevOut = "other"
    /\ rSession = << >>
    /\ rPc = << >>
    /\ rBooks = << >>
    /\ rOut = << >>
    /\ lastWriter = 0

SpecScenario == InitScenario /\ [][Next]_vars

----------------------------------------------------------------------------
(* Two instances of the program, both logged in, on the same books file. *)
(* A handler reads the file when it starts and writes it after the user  *)
(* has answered its prompt; the other instance may run in between.       *)

Instances == {1, 2}

SeededSessions ==
    {[username |-> u, role |-> default_users[u].role] : u \in DOMAIN default_users}

RaceIdInputs == {<<"1">>, <<"3">>, <<"x">>}

NoReport == [kind |-> "none", id |-> 0]

\* the id a report is about, 0 when the input names none
ReportedId(raw) ==
    IF IsDigit(Strip(raw)) /\ IntParses(Strip(raw)) THEN ToInt(Strip(raw)) ELSE 0

InitRace ==
    /\ usersFile = [exists |-> TRUE, data |-> default_users]
    /\ booksFile = [exists |-> TRUE, data |-> default_books(StartDay)]
    /\ today = StartDay
    /\ pc = "exited"
    /\ users = EmptyUsers
    /\ attempts = 3
    /\ active_user = None
    /\ user_role = None
    /\ out = "none"
    /\ prevOut = "other"
    /\ rSession \in [Instances -> SeededSessions]
    /\ rPc = [i \in Instances |-> "menu"]
    /\ rBooks = [i \in Instances |-> EmptyBooks]
    /\ rOut = [i \in Instances |-> NoReport]
    /\ lastWriter = 0

\* checkout_book up to its prompt: the header clears the screen, the file is read
RaceCheckoutLoad(i) ==
    /\ rPc[i] = "menu"
    /\ rBooks' = [rBooks EXCEPT ![i] = LoadBooks]
    /\ rPc' = [rPc EXCEPT ![i] = "checkout_prompt"]
    /\ rOut' = [rOut EXCEPT ![i] = NoReport]
    /\ UNCHANGED <<usersFile, booksFile, today, sessionVars, rSession, lastWriter>>

\* checkout_book reading the file again after the prompt
RaceCheckoutSaveReloads(i, raw, ok) ==
    /\ rPc[i] = "checkout_prompt"
    /\ LET r == CheckoutResult(LoadBooks, raw, rSession[i].username, today, ok) IN
        /\ booksFile' = IF r.write THEN save_data(booksFile, r.books, ok)
                                   ELSE booksFile
        /\ lastWriter' = IF r.write /\ ok THEN i ELSE lastWriter
        /\ rOut' = [rOut EXCEPT ![i] = [kind |-> r.out, id |-> ReportedId(raw)]]
    /\ rPc' = [rPc EXCEPT ![i] = "menu"]
    /\ rBooks' = [rBooks EXCEPT ![i] = EmptyBooks]
    /\ UNCHANGED <<usersFile, today, sessionVars, rSession>>

\* checkout_book from its prompt on, on the list read before the prompt
RaceCheckoutSave(i, raw, ok) ==
    /\ rPc[i] = "checkout_prompt"
    /\ LET r == CheckoutResult(rBooks[i], raw, rSession[i].username, today, ok) IN
        /\ booksFile' = IF r.write THEN save_data(booksFile, r.books, ok)
                                   ELSE booksFile
        /\ lastWriter' = IF r.write /\ ok THEN i ELSE lastWriter
        /\ rOut' = [rOut EXCEPT ![i] = [kind |-> r.out, id |-> ReportedId(raw)]]
    /\ rPc' = [rPc EXCEPT ![i] = "menu"]
    /\ rBooks' = [rBooks EXCEPT ![i] = EmptyBooks]
    /\ UNCHANGED <<usersFile, today, sessionVars, rSession>>

\* return_book up to its prompt
RaceReturnLoad(i) ==
    /\ rPc[i] = "menu"
    /\ IF ReturnVisible(LoadBooks, rSession[i].username, rSession[i].role)
        THEN /\ rBooks' = [rBooks EXCEPT ![i] = LoadBooks]
             /\ rPc' = [rPc EXCEPT ![i] = "return_prompt"]
             /\ rOut' = [rOut EXCEPT ![i] = NoReport]
        ELSE /\ rOut' = [rOut EXCEPT ![i] =
                            [kind |-> IF rSession[i].role = "librarian"
                                          THEN "nothing_checked_out"
                                          ELSE "nothing_to_return",
                             id |-> 0]]
             /\ UNCHANGED <<rBooks, rPc>>
    /\ UNCHANGED <<usersFile, booksFile, today, sessionVars, rSession, lastWriter>>

\* return_book from its prompt on, on the list read before the prompt
RaceReturnSave(i, raw, ok) ==
    /\ rPc[i] = "return_prompt"
    /\ LET r == ReturnScan(rBooks[i], raw, rSession[i].username,
                           rSession[i].role, ok) IN
        /\ booksFile' = IF r.write THEN save_data(booksFile, r.books, ok)
                                   ELSE booksFile
        /\ lastWriter' = IF r.write /\ ok THEN i ELSE lastWriter
        /\ rOut' = [rOut EXCEPT ![i] = [kind |-> r.out, id |-> ReportedId(raw)]]
    /\ rPc' = [rPc EXCEPT ![i] = "menu"]
    /\ rBooks' = [rBooks EXCEPT ![i] = EmptyBooks]
    /\ UNCHANGED <<usersFile, today, sessionVars, rSession>>

NextRace ==
    \/ \E i \in Instances : RaceCheckoutLoad(i)
    \/ \E i \in Instances, raw \in RaceIdInputs, ok \in BOOLEAN :
            RaceCheckoutSave(i, raw, ok)
    \/ \E i \in Instances : RaceReturnLoad(i)
    \/ \E i \in Instances, raw \in RaceIdInputs, ok \in BOOLEAN :
            RaceReturnSave(i, raw, ok)

SpecRace == InitRace /\ [][NextRace]_vars

----------------------------------------------------------------------------
(* Properties *)

Books == LoadBooks

BooksAfter == load_data(booksFile', EmptyBooks)

InSession == pc \in {"menu", "pause", "sleep"}

\* the input `raw` names a record of `books` whose status is `status`
Names(books, raw, status) ==
    LET s == Strip(raw) IN
    /\ IsDigit(s)
    /\ IntParses(s)
    /\ LET i == FindIndex(books, ToInt(s)) IN
        i # 0 /\ books[i].status = status

\* the session's user is a librarian or the borrower of the record `raw` names
MayReturn(books, raw) ==
    \/ Role = "librarian"
    \/ books[FindIndex(books, ToInt(Strip(raw)))].borrower = Some(Username)

\* the calendar, one day at a time, on year-month-day triples
NextDate(d) ==
    IF d[3] < DaysInMonth[d[2]] THEN <<d[1], d[2], d[3] + 1>>
    ELSE IF d[2] < 12 THEN <<d[1], d[2] + 1, 1>>
    ELSE <<d[1] + 1, 1, 1>>

RECURSIVE DateAfter(_, _)
DateAfter(d, k) == IF k = 0 THEN d ELSE DateAfter(NextDate(d), k - 1)

StartDate == <<2026, 12, 20>>

\* the text of the date `k` days after the day `day`
DateText(day, k) ==
    LET d == DateAfter(StartDate, day - StartDay + k) IN
    FourDigits(d[1]) \o <<"-">> \o TwoDigits(d[2]) \o <<"-">> \o TwoDigits(d[3])

\* C1: in every state of the books store, for every book, the status is
\* Available exactly when borrower is null, and exactly when due_date is null.
C1_StatusBorrowerDue ==
    \A i \in 1..Len(Books) :
        /\ Books[i].status \in {"Available", "Checked Out"}
        /\ (Books[i].status = "Available") <=> (Books[i].borrower = None)
        /\ (Books[i].borrower = None) <=> (Books[i].due_date = None)

\* C1 witness: the store after a checkout, a return of the seeded loan and an
\* add-book have all been saved.
C1_Witness ==
    /\ Len(Books) = 5
    /\ Books[1].status = "Checked Out"
    /\ Books[1].borrower = Some(Str_mridul)
    /\ Books[3].status = "Available"
    /\ Books[5].status = "Checked Out"

C3_CheckoutSetsLoan ==
    [][Chosen("checkout") => \A raw \in IdInputs :
        Names(Books, raw, "Available") =>
            (MenuCheckout(raw, TRUE) =>
                LET i == FindIndex(Books, ToInt(Strip(raw))) IN
                /\ booksFile'.exists
                /\ Len(BooksAfter) = Len(Books)
                /\ \A j \in 1..Len(Books) : j # i => BooksAfter[j] = Books[j]
                /\ BooksAfter[i] =
                    [id |-> Books[i].id, title |-> Books[i].title,
                     author |-> Books[i].author, summary |-> Books[i].summary,
                     status |-> "Checked Out", borrower |-> Some(Username),
                     due_date |-> Some(DateText(today, 14))])]_vars

\* C3 witness: a checkout has just been saved, on a later day than the first.
C3_Witness ==
    /\ pc = "pause"
    /\ out = "checkout_ok"
    /\ today > StartDay
    /\ \E i \in 1..Len(Books) :
        /\ Books[i].borrower = Some(Username)
        /\ Books[i].due_date = Some(DateText(today, 14))

\* the record at index i of `books`, returned
Returned(books, i) ==
    [id |-> books[i].id, title |-> books[i].title,
     author |-> books[i].author, summary |-> books[i].summary,
     status |-> "Available", borrower |-> None, due_date |-> None]

OneBook(status) ==
    Len(Books) = 1 /\ Books[1].id = 1 /\ Books[1].status = status

\* the three steps of the scenario; `message` is what the last one reports
ScenarioSteps(message) ==
    /\ (pc = "menu" /\ active_user = Some(Str_alice) /\ OneBook("Available")
            /\ MenuCheckout(<<"1">>, TRUE)) =>
        BooksAfter =
            << [id |-> 1, title |-> Books[1].title, author |-> Books[1].author,
                summary |-> Books[1].summary, status |-> "Checked Out",
                borrower |-> Some(Str_alice),
                due_date |-> Some(DateText(today, 14))] >>
    /\ (pc = "menu" /\ OneBook("Checked Out")
            /\ Books[1].borrower = Some(Str_alice)
            /\ (active_user = Some(Str_alice) \/ user_role = Some("librarian"))
            /\ MenuReturn(<<"1">>, TRUE)) =>
        BooksAfter = <<Returned(Books, 1)>>
    /\ (pc = "menu" /\ active_user = Some(Str_alice) /\ OneBook("Available")
            /\ \E ok \in BOOLEAN : MenuReturn(<<"1">>, ok)) =>
        (booksFile' = booksFile /\ out' = message)

\* C5 as claimed: from the catalog of one Available book of id 1, a checkout
\* of id 1 by alice yields the loan to alice due in 14 days, a return of id 1
\* by alice or a librarian restores the Available record, and a further return
\* of id 1 by alice changes nothing and reports "already available".
C5_FurtherReturnAlreadyAvailable == [][ScenarioSteps("already_available")]_vars

\* C5 amended: the same (each save succeeding), except that the further return
\* by alice changes nothing and reports that she has no books checked out,
\* without asking for an id.
C5_FurtherReturnNothingToReturn == [][ScenarioSteps("nothing_to_return")]_vars

\* C5 witness: alice's session has just returned the book and asked to return
\* it again.
C5_Witness ==
    /\ pc = "pause"
    /\ active_user = Some(Str_alice)
    /\ prevOut = "return_ok"
    /\ out = "nothing_to_return"
    /\ OneBook("Available")
    /\ Books[1].borrower = None
    /\ Books[1].due_date = None

MaxOf(S) == CHOOSE m \in S : \A x \in S : x <= m

IdsOf(books) == {books[i].id : i \in 1..Len(books)}

AddReports == {"add_ok", "add_save_failed", "add_empty", "add_duplicate"}

\* the two texts are the same, letter case aside
SameText(a, b) == Len(a) = Len(b) /\ Lower(a) = Lower(b)

\* some record of `books` has this title and author, letter case aside
HasPair(books, title, author) ==
    \E i \in 1..Len(books) :
        SameText(books[i].title, title) /\ SameText(books[i].author, author)

\* C7: an add-book whose trimmed title or author is empty, or whose title and
\* author match a record case-insensitively, is rejected and leaves the books
\* store as it was; in every state no two records share a case-insensitive
\* (title, author) pair.
C7_AddRejected ==
    /\ [](\A i \in 1..Len(Books) : \A j \in 1..Len(Books) :
            i # j => ~(/\ SameText(Books[i].title, Books[j].title)
                       /\ SameText(Books[i].author, Books[j].author)))
    /\ [][(Chosen("add") /\ out' \in AddReports) =>
            \A t \in TitleInputs, a \in AuthorInputs :
            (\/ Strip(t) = << >>
             \/ Strip(a) = << >>
             \/ HasPair(Books, Strip(t), Strip(a))) =>
                \A s \in SummaryInputs, ok \in BOOLEAN : MenuAdd(t, a, s, ok) =>
                    /\ booksFile' = booksFile
                    /\ out' \in {"add_empty", "add_duplicate"}]_vars

\* C7 witness: in a catalog that was empty, the one book added has been
\* offered again and refused.
C7_Witness ==
    /\ pc = "pause"
    /\ out = "add_duplicate"
    /\ Len(Books) = 1
    /\ Books[1].id = 1

C9_Login ==
    /\ [](/\ attempts \in 0..3
          /\ InSession =>
                /\ active_user # None
                /\ Username \in DOMAIN users
                /\ user_role = Some(users[Username].role)
          /\ attempts = 0 => (pc = "exited" /\ active_user = None))
    /\ [][/\ pc = "login" =>
                \A n \in UsernameInputs, p \in PasswordInputs :
                    LoginAttempt(n, p) =>
                        IF Strip(n) \in DOMAIN users
                              /\ users[Strip(n)].password = Strip(p)
                            THEN /\ pc' = "menu"
                                 /\ active_user' = Some(Strip(n))
                                 /\ attempts' = attempts
                            ELSE /\ pc' # "menu"
                                 /\ active_user' = None
                                 /\ attempts' = attempts - 1
          /\ (pc' = "menu" /\ ~InSession) => (pc = "login" /\ attempts > 0)]_vars

\* C9 witness: three attempts have failed and the process has ended.
C9_Witness ==
    /\ pc = "exited"
    /\ attempts = 0
    /\ out = "login_locked"
    /\ active_user = None
    /\ user_role = None

\* C10: with two instances on one books file, a checkout that finds the book
\* Available in the list it read before its prompt writes that list, with the
\* loan added, over whatever the file holds by then, and reports success; the
\* file holds the loan of the instance that saved last.
C10_LastWriteWins ==
    /\ [](\A i \in Instances :
            (lastWriter = i /\ rPc[i] = "menu" /\ rOut[i].kind = "checkout_ok") =>
                Books[FindIndex(Books, rOut[i].id)].borrower
                    = Some(rSession[i].username))
    /\ [][\A i \in Instances : rPc[i] = "checkout_prompt" =>
            \A raw \in RaceIdInputs :
                (Names(rBooks[i], raw, "Available")
                    /\ RaceCheckoutSave(i, raw, TRUE)) =>
                    LET k == FindIndex(rBooks[i], ToInt(Strip(raw))) IN
                    /\ rOut'[i].kind = "checkout_ok"
                    /\ Len(BooksAfter) = Len(rBooks[i])
                    /\ \A j \in 1..Len(rBooks[i]) :
                            j # k => BooksAfter[j] = rBooks[i][j]
                    /\ BooksAfter[k].borrower = Some(rSession[i].username)]_vars

\* C10 witness: two students were each told that the same book is theirs, and
\* the file names only the one that saved last.
C10_Witness ==
    /\ rOut[1].kind = "checkout_ok"
    /\ rOut[2].kind = "checkout_ok"
    /\ rOut[1].id = rOut[2].id
    /\ rSession[1].role = "student"
    /\ rSession[2].role = "student"
    /\ rSession[1].username # rSession[2].username
    /\ lastWriter = 2
    /\ Books[FindIndex(Books, rOut[1].id)].borrower = Some(rSession[2].username)

====
